---- MODULE Spec2Model ----
(***************************************************************************)
(* The CiA/DS402 power state machine of canopen/profiles/p402.py           *)
(* (class BaseNode402): the status word decoder, the transition table, the *)
(* enabling planner, the command dispatcher, the state setter with its two *)
(* deadlines, reset_from_fault and change_mode.                            *)
(*                                                                         *)
(* Time is counted in ticks; TicksPerSecond ticks make one second of       *)
(* time.time().  The thread of the caller runs one statement per action;   *)
(* the status word callback runs between any two of them.                  *)
(***************************************************************************)
EXTENDS Integers, Sequences, FiniteSets, TLC

VARIABLES
    items_order,    \* iteration order of NEXTSTATE2ENABLE.items() in this process
    sm_timeout,     \* self.sm_timeout, in ticks
    device,         \* how the drive answers commands: "obedient" or "free"
    pdos,           \* self.pdo: the node's PDO maps, as read by pdo.read()
    _state,         \* self._state
    sw_last_value,  \* self.sw_last_value
    cw_pdo,         \* self.cw_pdo: index of the bound PDO, or None
    is_statusword_configured,
    is_controlword_configured,
    callbacks,      \* the PDO maps add_callback was called on, in the order of the calls
    nmt_state,      \* self.nmt.state
    now,            \* time.time(), counted from the time the call began
    polled,         \* the waiting loop has run since the last tick
    op,             \* the call the application made last
    pc,             \* the statement the caller's thread is at
    caller,         \* who called the state setter
    result,         \* how the last call ended: "ok" or the exception's class
    exc,            \* the exception in flight, or the one a handler has caught
    new_state,      \* the setter's parameter
    next,           \* the setter's local: the state of this iteration's edge
    code,           \* the setter's local: the control code of the edge
    gt,             \* the setter's local: the overall deadline
    it,             \* the setter's local: the step deadline
    saved,          \* change_mode's local "state"
    mode,           \* change_mode's parameter
    t,              \* change_mode's local: the confirmation deadline
    mode_value,     \* the device's object 0x6502 as last written
    sent,           \* history: the control codes dispatched in this call
    op_from,        \* history: the observed state when the call began
    heard,          \* history: the status words that arrived during this call
    asked,          \* history: the state the last dispatched command asks for
    write_result,   \* history: how change_mode's write of object 0x6502 went
    plan_from,      \* history: self.state as line 264 read it in this iteration
    edge_from,      \* history: self.state as line 267 read it in this iteration
    edge_end,       \* history: how the last wait ended, until an iteration ends without one
    pl_from,        \* planner check: the argument
    pl_next,        \* planner check: the result
    pl_done,        \* planner check: the planner has been applied
    cb_raw,         \* decoder check: mapobject[0].raw of the last callback
    cb_old          \* decoder check: self._state before the last callback

-----------------------------------------------------------------------------
(* Bounds of the model *)

\* ticks of the model clock per second of time.time()
TicksPerSecond == 2
\* the largest sm_timeout tried, in ticks
MaxSmTimeout == 1
\* the clock stops here
MaxTime == 4
\* control codes dispatched within one call
MaxSent == 5
\* status words a drive that answers freely sends within one call
MaxHeard == 1
\* the most PDO maps of a node whose setup is checked on its own
MaxPdos == 2
\* the largest raw status word decoded: every combination of bits 0..6
MaxWord == 127
-----------------------------------------------------------------------------
(* Values *)

None == "None"
\* self.sw_last_value = None, and self.cw_pdo = None
NoWord == -1
NoPdo == 0

States402 ==
    { "NOT READY TO SWITCH ON", "SWITCH ON DISABLED", "READY TO SWITCH ON",
      "SWITCHED ON", "OPERATION ENABLED", "FAULT", "FAULT REACTION ACTIVE",
      "QUICK STOP ACTIVE" }

\* the characters of every string the tables hold, for Python's substring test
Chars ==
    "NOT READY TO SWITCH ON"   :> <<"N","O","T"," ","R","E","A","D","Y"," ","T","O"," ","S","W","I","T","C","H"," ","O","N">> @@
    "SWITCH ON DISABLED"       :> <<"S","W","I","T","C","H"," ","O","N"," ","D","I","S","A","B","L","E","D">> @@
    "READY TO SWITCH ON"       :> <<"R","E","A","D","Y"," ","T","O"," ","S","W","I","T","C","H"," ","O","N">> @@
    "SWITCHED ON"              :> <<"S","W","I","T","C","H","E","D"," ","O","N">> @@
    "OPERATION ENABLED"        :> <<"O","P","E","R","A","T","I","O","N"," ","E","N","A","B","L","E","D">> @@
    "FAULT"                    :> <<"F","A","U","L","T">> @@
    "FAULT REACTION ACTIVE"    :> <<"F","A","U","L","T"," ","R","E","A","C","T","I","O","N"," ","A","C","T","I","V","E">> @@
    "QUICK STOP ACTIVE"        :> <<"Q","U","I","C","K"," ","S","T","O","P"," ","A","C","T","I","V","E">> @@
    "START"                    :> <<"S","T","A","R","T">> @@
    "QUICK_STOP_ACTIVE"        :> <<"Q","U","I","C","K","_","S","T","O","P","_","A","C","T","I","V","E">> @@
    "OPERATION_ENABLED"        :> <<"O","P","E","R","A","T","I","O","N","_","E","N","A","B","L","E","D">>

\* Python's  a in b  for two strings: a is a substring of b
IsSubstring(a, b) ==
    \E i \in 0..(Len(Chars[b]) - Len(Chars[a])) :
        SubSeq(Chars[b], i + 1, i + Len(Chars[a])) = Chars[a]

-----------------------------------------------------------------------------
(* STATES402: status word 0x6041 bitmask and value of every state *)

\* faulty variant: QUICK STOP ACTIVE is told by bits 0..3 alone, mask 0x0F
STATES402_low4 ==
    "NOT READY TO SWITCH ON" :> <<79, 0>>   @@
    "SWITCH ON DISABLED"     :> <<79, 64>>  @@
    "READY TO SWITCH ON"     :> <<111, 33>> @@
    "SWITCHED ON"            :> <<111, 35>> @@
    "OPERATION ENABLED"      :> <<111, 39>> @@
    "FAULT"                  :> <<79, 8>>   @@
    "FAULT REACTION ACTIVE"  :> <<79, 15>>  @@
    "QUICK STOP ACTIVE"      :> <<15, 7>>

STATES402 ==
    "NOT READY TO SWITCH ON" :> <<79, 0>>   @@   \* [0x4F, 0x00]
    "SWITCH ON DISABLED"     :> <<79, 64>>  @@   \* [0x4F, 0x40]
    "READY TO SWITCH ON"     :> <<111, 33>> @@   \* [0x6F, 0x21]
    "SWITCHED ON"            :> <<111, 35>> @@   \* [0x6F, 0x23]
    "OPERATION ENABLED"      :> <<111, 39>> @@   \* [0x6F, 0x27]
    "FAULT"                  :> <<79, 8>>   @@   \* [0x4F, 0x08]
    "FAULT REACTION ACTIVE"  :> <<79, 15>>  @@   \* [0x4F, 0x0F]
    "QUICK STOP ACTIVE"      :> <<111, 7>>       \* [0x6F, 0x07]

RECURSIVE BitAnd(_, _)
\* Python's  a & b  on non-negative integers
BitAnd(a, b) ==
    IF a = 0 \/ b = 0 THEN 0
    ELSE 2 * BitAnd(a \div 2, b \div 2) + (IF a % 2 = 1 /\ b % 2 = 1 THEN 1 ELSE 0)

\* the states whose (mask, value) pair the status word matches
Matching(statusword) ==
    { key \in DOMAIN STATES402 :
        BitAnd(statusword, STATES402[key][1]) = STATES402[key][2] }

-----------------------------------------------------------------------------
(* NEXTSTATE2ENABLE: the items in the order the source writes them.  A key *)
(* written ('X') is the string 'X'; a key written ('X', 'Y') is a tuple.   *)

NEXTSTATE2ENABLE ==
    << [str |-> TRUE,  cond |-> <<"START">>,
        next |-> "NOT READY TO SWITCH ON"],
       [str |-> FALSE, cond |-> <<"FAULT", "NOT READY TO SWITCH ON">>,
        next |-> "SWITCH ON DISABLED"],
       [str |-> TRUE,  cond |-> <<"SWITCH ON DISABLED">>,
        next |-> "READY TO SWITCH ON"],
       [str |-> TRUE,  cond |-> <<"READY TO SWITCH ON">>,
        next |-> "SWITCHED ON"],
       [str |-> FALSE, cond |-> <<"SWITCHED ON", "QUICK_STOP_ACTIVE", "OPERATION_ENABLED">>,
        next |-> "OPERATION ENABLED"],
       [str |-> TRUE,  cond |-> <<"FAULT REACTION ACTIVE">>,
        next |-> "FAULT"] >>

\* Python's  _from in cond : substring of a str key, member of a tuple key
InCond(_from, item) ==
    IF item.str
    THEN IsSubstring(_from, item.cond[1])
    ELSE \E i \in 1..Len(item.cond) : item.cond[i] = _from

RECURSIVE FirstMatch(_, _, _)
\* the for loop of __next_state_for_enabling over the items from position i on
FirstMatch(order, i, _from) ==
    IF i > Len(order) THEN None
    ELSE IF InCond(_from, NEXTSTATE2ENABLE[order[i]])
         THEN NEXTSTATE2ENABLE[order[i]].next
         ELSE FirstMatch(order, i + 1, _from)

\* __next_state_for_enabling(_from) when items() iterates in the given order
next_state_for_enabling(order, _from) == FirstMatch(order, 1, _from)

\* every order a dict of these six keys can iterate in
ItemOrders ==
    { o \in [1..Len(NEXTSTATE2ENABLE) -> 1..Len(NEXTSTATE2ENABLE)] :
        \A i, j \in 1..Len(NEXTSTATE2ENABLE) : i # j => o[i] # o[j] }

\* the order of the source text, and its reverse
WrittenOrder == [i \in 1..Len(NEXTSTATE2ENABLE) |-> i]
ReverseOrder == [i \in 1..Len(NEXTSTATE2ENABLE) |-> Len(NEXTSTATE2ENABLE) + 1 - i]

-----------------------------------------------------------------------------
(* TRANSITIONTABLE *)

TRANSITIONTABLE ==
    <<"READY TO SWITCH ON", "SWITCH ON DISABLED">>      :> 0   @@  \* 0x00
    <<"OPERATION ENABLED", "SWITCH ON DISABLED">>       :> 0   @@
    <<"SWITCHED ON", "SWITCH ON DISABLED">>             :> 0   @@
    <<"QUICK STOP ACTIVE", "SWITCH ON DISABLED">>       :> 0   @@
    <<"NOT READY TO SWITCH ON", "SWITCH ON DISABLED">>  :> 0   @@
    <<"START", "NOT READY TO SWITCH ON">>               :> 0   @@
    <<"FAULT REACTION ACTIVE", "FAULT">>                :> 0   @@
    <<"SWITCH ON DISABLED", "READY TO SWITCH ON">>      :> 6   @@  \* 0x06
    <<"SWITCHED ON", "READY TO SWITCH ON">>             :> 6   @@
    <<"OPERATION ENABLED", "READY TO SWITCH ON">>       :> 6   @@
    <<"READY TO SWITCH ON", "SWITCHED ON">>             :> 7   @@  \* 0x07
    <<"OPERATION ENABLED", "SWITCHED ON">>              :> 7   @@
    <<"SWITCHED ON", "OPERATION ENABLED">>              :> 15  @@  \* 0x0F
    <<"QUICK STOP ACTIVE", "OPERATION ENABLED">>        :> 15  @@
    <<"READY TO SWITCH ON", "QUICK STOP ACTIVE">>       :> 2   @@  \* 0x02
    <<"SWITCHED ON", "QUICK STOP ACTIVE">>              :> 2   @@
    <<"OPERATION ENABLED", "QUICK STOP ACTIVE">>        :> 2   @@
    <<"FAULT", "SWITCH ON DISABLED">>                   :> 128     \* 0x80

\* TRANSITIONTABLE[(f, n)] raises KeyError
IsKeyError(f, n) == <<f, n>> \notin DOMAIN TRANSITIONTABLE

-----------------------------------------------------------------------------
(* OPERATIONMODE, and the abort code change_mode tolerates *)

OPERATIONMODE ==
    "NO MODE" :> 0 @@ "PROFILED POSITION" :> 1 @@ "VELOCITY" :> 2 @@
    "PROFILED VELOCITY" :> 4 @@ "PROFILED TORQUE" :> 8 @@ "HOMING" :> 32 @@
    "INTERPOLATED POSITION" :> 64 @@ "CYCLIC SYNCHRONOUS POSITION" :> 128 @@
    "CYCLIC SYNCHRONOUS VELOCITY" :> 256 @@ "CYCLIC SYNCHRONOUS TORQUE" :> 512 @@
    "Open loop scalar mode" :> 65536 @@ "Open loop vector mode" :> 131072

\* 0x06010002, attempt to write a read-only object
ReadOnlyAbort == 100728834
\* the other abort codes tried: 0x06090030, value range of parameter exceeded
OtherAbortCodes == { 101253168 }

\* what a call ends with, or what is raised: the class and, for an abort, its code
Ok == [cls |-> "ok", code |-> 0]
NoExc == [cls |-> "None", code |-> 0]
Raised(cls) == [cls |-> cls, code |-> 0]
Aborted(c) == [cls |-> "SdoAbortedError", code |-> c]

\* what a write through the SDO client can raise
SdoFailures ==
    { Raised("SdoCommunicationError"), Aborted(ReadOnlyAbort) }
        \cup { Aborted(c) : c \in OtherAbortCodes }

-----------------------------------------------------------------------------
(* The environment the model runs the node in *)

\* the status words the drive sends: one per state, and 0x01, which no state matches
DeviceWords == { 0, 64, 33, 35, 39, 8, 15, 7, 1 }

\* the modes the application asks for
ModesTried == { "HOMING" }

\* a PDO map: enabled or not, with or without the two objects
PdoMap(e, s, c) == [enabled |-> e, Statusword |-> s, Controlword |-> c]

\* a node with the control word mapped in PDOs (a disabled one, then two
\* enabled ones), and a node without
MainPdoConfigs ==
    { << PdoMap(FALSE, TRUE, TRUE), PdoMap(TRUE, TRUE, FALSE),
         PdoMap(TRUE, FALSE, TRUE), PdoMap(TRUE, TRUE, TRUE) >>,
      << PdoMap(TRUE, FALSE, FALSE), PdoMap(TRUE, TRUE, FALSE) >> }

\* time.time() + 1, line 269, and time.time() + 0.5, line 170, in ticks
StepTimeout == 1 * TicksPerSecond
ModeTimeout == TicksPerSecond \div 2

-----------------------------------------------------------------------------
envVars == <<items_order, sm_timeout, device, pdos>>
nodeVars == <<_state, sw_last_value>>
bindVars == <<cw_pdo, is_statusword_configured, is_controlword_configured, callbacks,
              nmt_state>>
timeVars == <<now, polled>>
ctlVars == <<op, pc, caller, result, exc>>
setterVars == <<new_state, next, code, gt, it>>
modeVars == <<saved, mode, t, mode_value>>
iterVars == <<plan_from, edge_from, edge_end>>
histVars == <<sent, op_from, heard, asked, write_result, iterVars>>
plVars == <<pl_from, pl_next, pl_done, cb_raw, cb_old>>
vars == <<envVars, nodeVars, bindVars, timeVars, ctlVars, setterVars, modeVars,
          histVars, plVars>>

\* __init__, lines 104-113
NodeInit ==
    /\ _state = "NOT READY TO SWITCH ON"
    /\ sw_last_value = NoWord
    /\ cw_pdo = NoPdo
    /\ is_statusword_configured = FALSE
    /\ is_controlword_configured = FALSE
    /\ callbacks = <<>>
    /\ nmt_state = "INITIALISING"
    /\ now = 0 /\ polled = FALSE
    /\ op = "none" /\ pc = "idle" /\ caller = "none" /\ result = Ok /\ exc = NoExc
    /\ new_state = None /\ next = None /\ code = 0 /\ gt = 0 /\ it = 0
    /\ saved = None /\ mode = "NO MODE" /\ t = 0 /\ mode_value = 0
    /\ sent = <<>> /\ op_from = None /\ heard = 0 /\ asked = None /\ write_result = NoExc
    /\ plan_from = None /\ edge_from = None /\ edge_end = "none"

Init ==
    /\ items_order \in {WrittenOrder, ReverseOrder}
    /\ sm_timeout \in 0..MaxSmTimeout
    /\ device \in {"obedient", "free"}
    /\ pdos \in MainPdoConfigs
    /\ NodeInit
    /\ pl_from = None /\ pl_next = None /\ pl_done = FALSE
    /\ cb_raw = NoWord /\ cb_old = None

-----------------------------------------------------------------------------
(* Calls of the application start here *)

\* the history of a call, started when the application makes the call
BeginCall(name) ==
    /\ pc = "idle"
    /\ op' = name
    /\ sent' = <<>> /\ op_from' = _state /\ heard' = 0 /\ asked' = None /\ write_result' = NoExc
    /\ plan_from' = None /\ edge_from' = None /\ edge_end' = "none"

\* the call returns to the application, normally or with the exception e
EndCall(e) ==
    /\ pc' = "done" /\ caller' = "none" /\ result' = e /\ exc' = NoExc

\* an except clause has caught e and the call returns normally
EndCaught(e) ==
    /\ pc' = "done" /\ caller' = "none" /\ result' = Ok /\ exc' = e

\* the except clauses of change_mode, lines 178-187.  Line 186 formats the
\* message with subobj, a name the module never binds: NameError is raised
\* there, before the raise of line 187 is reached.
ModeHandle(e) ==
    IF e.cls = "SdoCommunicationError" THEN EndCaught(e)
    ELSE IF e.cls = "SdoAbortedError"
         THEN IF e.code # ReadOnlyAbort THEN EndCall(Raised("NameError")) ELSE EndCaught(e)
         ELSE EndCall(e)

\* entry of the state setter, line 260
EnterSetter(target, who) ==
    /\ new_state' = target
    /\ gt' = now + sm_timeout
    /\ caller' = who
    /\ pc' = "while"
    /\ exc' = NoExc

\* the setter returns to the statement after the assignment that called it
SetterReturn ==
    CASE caller = "mode_down" -> pc' = "mode_write" /\ UNCHANGED <<caller, result, exc>>
      [] OTHER -> EndCall(Ok)

\* an exception leaves the setter
SetterRaise(e) ==
    IF caller \in {"mode_down", "mode_restore"} THEN ModeHandle(e) ELSE EndCall(e)

-----------------------------------------------------------------------------
(* setup_state402_machine, lines 115-150 *)

RECURSIVE ScanPdos(_, _, _, _)
\* the for loop of lines 122-141 from map i on: <<is_statusword_configured,
\* is_controlword_configured, cw_pdo>> at its end
ScanPdos(i, sw, cw, bound) ==
    IF i > Len(pdos) THEN <<sw, cw, bound>>
    ELSE IF ~pdos[i].enabled THEN ScanPdos(i + 1, sw, cw, bound)
    ELSE ScanPdos(i + 1,
                  sw \/ pdos[i].Statusword,
                  cw \/ pdos[i].Controlword,
                  IF ~cw /\ pdos[i].Controlword THEN i ELSE bound)

RECURSIVE Subscribed(_, _, _)
\* the calls of pdo.add_callback, line 128, the loop makes from map i on
Subscribed(i, sw, cbs) ==
    IF i > Len(pdos) THEN cbs
    ELSE IF pdos[i].enabled /\ ~sw /\ pdos[i].Statusword
         THEN Subscribed(i + 1, TRUE, Append(cbs, i))
         ELSE Subscribed(i + 1, sw, cbs)

\* faulty variant: setup fails without a Controlword mapping too
setup_needs_controlword ==
    /\ BeginCall("setup")
    /\ LET r == ScanPdos(1, is_statusword_configured, is_controlword_configured, cw_pdo)
       IN /\ is_statusword_configured' = r[1]
          /\ is_controlword_configured' = r[2]
          /\ cw_pdo' = r[3]
          /\ callbacks' = Subscribed(1, is_statusword_configured, callbacks)
          /\ IF ~r[1] \/ ~r[2]
             THEN /\ nmt_state' = "PRE-OPERATIONAL"
                  /\ EndCall(Raised("ValueError"))
             ELSE /\ nmt_state' = "OPERATIONAL"
                  /\ EndCall(Ok)
    /\ UNCHANGED <<envVars, nodeVars, timeVars, setterVars, modeVars, plVars>>

setup_state402_machine ==
    /\ BeginCall("setup")
    /\ LET r == ScanPdos(1, is_statusword_configured, is_controlword_configured, cw_pdo)
       IN /\ is_statusword_configured' = r[1]
          /\ is_controlword_configured' = r[2]
          /\ cw_pdo' = r[3]
          /\ callbacks' = Subscribed(1, is_statusword_configured, callbacks)
          /\ IF ~r[1]
             THEN /\ nmt_state' = "PRE-OPERATIONAL"
                  /\ EndCall(Raised("ValueError"))
             ELSE /\ nmt_state' = "OPERATIONAL"
                  /\ EndCall(Ok)
    /\ UNCHANGED <<envVars, nodeVars, timeVars, setterVars, modeVars, plVars>>

-----------------------------------------------------------------------------
(* on_statusword_callback, lines 208-221 *)

\* faulty variant: the callback never writes self._state
DecodedNever(statusword, old) == {old}

\* the state the loop of lines 216-221 leaves in _state: the last matching key
\* in iteration order, any of the matching keys; _state as it was if none matches
Decoded(statusword, old) ==
    IF Matching(statusword) = {} THEN {old} ELSE Matching(statusword)

\* what the drive sends: anything between two calls; during a call the state
\* the last command asked for if it is obedient, anything if it answers freely
DeviceSends(statusword) ==
    \/ pc = "idle"
    \/ pc \notin {"idle", "done"} /\ device = "free" /\ heard < MaxHeard
    \/ pc \notin {"idle", "done"} /\ device = "obedient"
           /\ asked # None /\ asked \in Matching(statusword)

on_statusword_callback ==
    /\ is_statusword_configured
    /\ \E statusword \in DeviceWords :
        /\ DeviceSends(statusword)
        /\ sw_last_value' = statusword
        /\ _state' \in Decoded(statusword, _state)
    /\ heard' = IF pc # "idle" /\ heard < MaxHeard THEN heard + 1 ELSE heard
    /\ UNCHANGED <<envVars, bindVars, timeVars, ctlVars, setterVars, modeVars,
                   sent, op_from, asked, write_result, iterVars, plVars>>

-----------------------------------------------------------------------------
(* The clock.  The statements of the caller's thread take no time; time    *)
(* passes in the two waiting loops, one tick at most between two turns of  *)
(* a loop.  Every deadline is set inside a call and relative to the time   *)
(* it is set at, so the clock is read from the time the call began and the *)
(* time that passes between two calls is left out.  An obedient drive      *)
(* answers a command before the clock moves.                               *)

Tick ==
    /\ now < MaxTime
    /\ pc \in {"wait", "mode_poll"} /\ polled
    /\ ~(device = "obedient" /\ pc = "wait" /\ _state # next)
    /\ now' = now + 1
    /\ polled' = FALSE
    /\ UNCHANGED <<envVars, nodeVars, bindVars, ctlVars, setterVars, modeVars,
                   histVars, plVars>>

-----------------------------------------------------------------------------
(* The state setter, lines 253-280 *)

\* self.state = target, by the application
state_setter ==
    /\ BeginCall("state")
    /\ \E target \in States402 : EnterSetter(target, "user")
    /\ UNCHANGED <<envVars, nodeVars, bindVars, timeVars, result, next, code, it,
                   modeVars, plVars>>

\* faulty variant: the body of the loop runs before line 261 tests the state
setter_dowhile ==
    /\ pc = "while"
    /\ pc' = "plan" /\ UNCHANGED <<caller, result, exc>>
    /\ UNCHANGED <<envVars, nodeVars, bindVars, timeVars, op, setterVars, modeVars,
                   histVars, plVars>>

\* line 261
setter_while ==
    /\ pc = "while"
    /\ IF _state # new_state
       THEN pc' = "plan" /\ UNCHANGED <<caller, result, exc>>
       ELSE SetterReturn
    /\ UNCHANGED <<envVars, nodeVars, bindVars, timeVars, op, setterVars, modeVars,
                   histVars, plVars>>

\* lines 263-266
setter_plan ==
    /\ pc = "plan"
    /\ next' = IF new_state = "OPERATION ENABLED"
               THEN next_state_for_enabling(items_order, _state)
               ELSE new_state
    /\ plan_from' = _state
    /\ pc' = "lookup"
    /\ UNCHANGED <<envVars, nodeVars, bindVars, timeVars, op, caller, result, exc,
                   new_state, code, gt, it, modeVars, sent, op_from, heard, asked,
                   write_result, edge_from, edge_end, plVars>>

\* faulty variant: the key of line 267 with its two states swapped
setter_lookup_swapped ==
    /\ pc = "lookup"
    /\ IF IsKeyError(next, _state)
       THEN /\ exc' = Raised("TypeError")
            /\ pc' = "finally"
            /\ code' = code
            /\ edge_end' = "none"
       ELSE /\ code' = TRANSITIONTABLE[<<next, _state>>]
            /\ pc' = "send"
            /\ exc' = exc
            /\ edge_end' = edge_end
    /\ edge_from' = _state
    /\ UNCHANGED <<envVars, nodeVars, bindVars, timeVars, op, caller, result,
                   new_state, next, gt, it, modeVars, sent, op_from, heard, asked,
                   write_result, plan_from, plVars>>

\* line 267; the KeyError is caught at line 276 and TypeError raised at line 277
setter_lookup ==
    /\ pc = "lookup"
    /\ IF IsKeyError(_state, next)
       THEN /\ exc' = Raised("TypeError")
            /\ pc' = "finally"
            /\ code' = code
            /\ edge_end' = "none"
       ELSE /\ code' = TRANSITIONTABLE[<<_state, next>>]
            /\ pc' = "send"
            /\ exc' = exc
            /\ edge_end' = edge_end
    /\ edge_from' = _state
    /\ UNCHANGED <<envVars, nodeVars, bindVars, timeVars, op, caller, result,
                   new_state, next, gt, it, modeVars, sent, op_from, heard, asked,
                   write_result, plan_from, plVars>>

\* faulty variant: the bound PDO is ignored
TransportSdoOnly == "sdo"

\* the transport __change_state_helper uses, lines 202-206
Transport == IF cw_pdo # NoPdo THEN "pdo" ELSE "sdo"

\* __change_state_helper(code), line 268, sending the code
change_state_helper ==
    /\ pc = "send"
    /\ Len(sent) < MaxSent
    /\ sent' = Append(sent, <<Transport, code>>)
    /\ asked' = next
    /\ edge_end' = "none"
    /\ pc' = "arm"
    /\ UNCHANGED <<envVars, nodeVars, bindVars, timeVars, op, caller, result, exc,
                   setterVars, modeVars, op_from, heard, write_result, plan_from,
                   edge_from, plVars>>

\* the exceptions of the setter's try statement that no except clause of
\* lines 274-277 names leave it, through the finally clause
Uncaught(e) == e.cls \notin {"RuntimeError", "KeyError"}

\* __change_state_helper(code), line 268, when the SDO write of line 206 fails
change_state_helper_fails ==
    /\ pc = "send"
    /\ Transport = "sdo"
    /\ \E e \in SdoFailures :
        /\ exc' = IF Uncaught(e) THEN e ELSE NoExc
        /\ pc' = "finally"
    /\ edge_end' = "none"
    /\ UNCHANGED <<envVars, nodeVars, bindVars, timeVars, op, caller, result,
                   setterVars, modeVars, sent, op_from, heard, asked, write_result,
                   plan_from, edge_from, plVars>>

\* faulty variant: a step deadline one tick late
StepDeadlineLate == now + StepTimeout + 1

\* line 269
StepDeadline == now + StepTimeout

setter_arm ==
    /\ pc = "arm"
    /\ it' = StepDeadline
    /\ pc' = "wait"
    /\ polled' = FALSE
    /\ UNCHANGED <<envVars, nodeVars, bindVars, now, op, caller, result, exc,
                   new_state, next, code, gt, modeVars, histVars, plVars>>

\* faulty variant: the loop of lines 270-273 is left at its first turn
setter_wait_impatient ==
    /\ pc = "wait"
    /\ pc' = "finally" /\ polled' = polled /\ edge_end' = edge_end
    /\ UNCHANGED <<envVars, nodeVars, bindVars, now, op, caller, result, exc,
                   setterVars, modeVars, sent, op_from, heard, asked, write_result,
                   plan_from, edge_from, plVars>>

\* faulty variant: the test of line 270 inverted
setter_wait_inverted ==
    /\ pc = "wait"
    /\ IF _state # next
       THEN pc' = "finally" /\ polled' = polled /\ edge_end' = "confirmed"
       ELSE IF now > it
            THEN pc' = "finally" /\ polled' = polled /\ edge_end' = "timeout"
            ELSE pc' = "wait" /\ polled' = TRUE /\ edge_end' = edge_end
    /\ UNCHANGED <<envVars, nodeVars, bindVars, now, op, caller, result, exc,
                   setterVars, modeVars, sent, op_from, heard, asked, write_result,
                   plan_from, edge_from, plVars>>

\* one turn of the loop of lines 270-273; the RuntimeError of line 272 is
\* caught at line 274 and printed
setter_wait ==
    /\ pc = "wait"
    /\ IF _state = next
       THEN pc' = "finally" /\ polled' = polled /\ edge_end' = "confirmed"
       ELSE IF now > it
            THEN pc' = "finally" /\ polled' = polled /\ edge_end' = "timeout"
            ELSE pc' = "wait" /\ polled' = TRUE /\ edge_end' = edge_end
    /\ UNCHANGED <<envVars, nodeVars, bindVars, now, op, caller, result, exc,
                   setterVars, modeVars, sent, op_from, heard, asked, write_result,
                   plan_from, edge_from, plVars>>

\* faulty variant: the overall deadline is waived when the edge was confirmed
OverallExpiredUnconfirmed == now > gt /\ edge_end # "confirmed"

\* line 279
OverallExpired == now > gt

\* faulty variant: the RuntimeError of line 272 is not caught
setter_finally_strict ==
    /\ pc = "finally"
    /\ IF OverallExpired \/ edge_end = "timeout" THEN SetterRaise(Raised("RuntimeError"))
       ELSE IF exc # NoExc THEN SetterRaise(exc)
       ELSE pc' = "while" /\ UNCHANGED <<caller, result, exc>>
    /\ UNCHANGED <<envVars, nodeVars, bindVars, timeVars, op, setterVars, modeVars,
                   histVars, plVars>>

\* the finally clause, lines 278-280: its RuntimeError replaces any exception
\* in flight; otherwise that exception goes on, or the loop does
setter_finally ==
    /\ pc = "finally"
    /\ IF OverallExpired THEN SetterRaise(Raised("RuntimeError"))
       ELSE IF exc # NoExc THEN SetterRaise(exc)
       ELSE pc' = "while" /\ UNCHANGED <<caller, result, exc>>
    /\ UNCHANGED <<envVars, nodeVars, bindVars, timeVars, op, setterVars, modeVars,
                   histVars, plVars>>

-----------------------------------------------------------------------------
(* reset_from_fault, lines 152-157 *)

\* faulty variant: the test of line 154 inverted
NotAtFault == _state # "FAULT"

\* line 154
AtFault == _state = "FAULT"

reset_from_fault ==
    /\ BeginCall("reset_from_fault")
    /\ IF AtFault
       THEN EnterSetter("OPERATION ENABLED", "reset") /\ result' = result
       ELSE EndCall(Ok) /\ UNCHANGED <<new_state, gt>>
    /\ UNCHANGED <<envVars, nodeVars, bindVars, timeVars, next, code, it,
                   modeVars, plVars>>

-----------------------------------------------------------------------------
(* change_mode, lines 162-187 *)

\* line 164
change_mode ==
    /\ BeginCall("change_mode")
    /\ \E m \in ModesTried : mode' = m
    /\ saved' = _state
    /\ pc' = "mode_if"
    /\ UNCHANGED <<envVars, nodeVars, bindVars, timeVars, caller, result, exc,
                   setterVars, t, mode_value, plVars>>

\* lines 165-166
mode_if ==
    /\ pc = "mode_if"
    /\ IF _state = "OPERATION ENABLED"
       THEN EnterSetter("SWITCHED ON", "mode_down")
       ELSE pc' = "mode_write" /\ UNCHANGED <<caller, exc, new_state, gt>>
    /\ UNCHANGED <<envVars, nodeVars, bindVars, timeVars, op, result, next, code, it,
                   modeVars, histVars, plVars>>

\* line 169, the write going through
mode_write ==
    /\ pc = "mode_write"
    /\ mode_value' = OPERATIONMODE[mode]
    /\ pc' = "mode_arm"
    /\ write_result' = Ok
    /\ UNCHANGED <<envVars, nodeVars, bindVars, timeVars, op, caller, result, exc,
                   setterVars, saved, mode, t, sent, op_from, heard, asked, iterVars,
                   plVars>>

\* line 169, the write failing; a device that aborts may have taken the value
mode_write_fails ==
    /\ pc = "mode_write"
    /\ \E e \in SdoFailures :
        /\ ModeHandle(e)
        /\ write_result' = e
        /\ mode_value' \in IF e.cls = "SdoAbortedError"
                           THEN {mode_value, OPERATIONMODE[mode]}
                           ELSE {mode_value}
    /\ UNCHANGED <<envVars, nodeVars, bindVars, timeVars, op, setterVars, saved,
                   mode, t, sent, op_from, heard, asked, iterVars, plVars>>

\* line 170
mode_arm ==
    /\ pc = "mode_arm"
    /\ t' = now + ModeTimeout
    /\ pc' = "mode_poll"
    /\ polled' = FALSE
    /\ UNCHANGED <<envVars, nodeVars, bindVars, now, op, caller, result, exc,
                   setterVars, saved, mode, mode_value, histVars, plVars>>

\* line 171, the comparison false: the loop ends
mode_confirmed ==
    /\ pc = "mode_poll"
    /\ pc' = "mode_restore"
    /\ UNCHANGED <<envVars, nodeVars, bindVars, timeVars, op, caller, result, exc,
                   setterVars, modeVars, histVars, plVars>>

\* lines 171-174, the comparison true: break once the deadline has passed
mode_spin ==
    /\ pc = "mode_poll"
    /\ IF now > t THEN pc' = "mode_restore" /\ polled' = polled
       ELSE pc' = "mode_poll" /\ polled' = TRUE
    /\ UNCHANGED <<envVars, nodeVars, bindVars, now, op, caller, result, exc,
                   setterVars, modeVars, histVars, plVars>>

\* line 175
mode_restore ==
    /\ pc = "mode_restore"
    /\ EnterSetter(saved, "mode_restore")
    /\ UNCHANGED <<envVars, nodeVars, bindVars, timeVars, op, result, next, code, it,
                   modeVars, histVars, plVars>>

-----------------------------------------------------------------------------
\* the application has the outcome of the call; the locals of the call and
\* the history kept of it are dropped
call_returned ==
    /\ pc = "done"
    /\ pc' = "idle" /\ op' = "none" /\ caller' = "none" /\ result' = Ok /\ exc' = NoExc
    /\ now' = 0 /\ polled' = FALSE
    /\ new_state' = None /\ next' = None /\ code' = 0 /\ gt' = 0 /\ it' = 0
    /\ saved' = None /\ mode' = "NO MODE" /\ t' = 0
    /\ sent' = <<>> /\ op_from' = None /\ heard' = 0 /\ asked' = None /\ write_result' = NoExc
    /\ plan_from' = None /\ edge_from' = None /\ edge_end' = "none"
    /\ UNCHANGED <<envVars, nodeVars, bindVars, mode_value, plVars>>

Next ==
    \/ setup_state402_machine
    \/ on_statusword_callback
    \/ Tick
    \/ state_setter
    \/ setter_while
    \/ setter_plan
    \/ setter_lookup
    \/ change_state_helper
    \/ change_state_helper_fails
    \/ setter_arm
    \/ setter_wait
    \/ setter_finally
    \/ reset_from_fault
    \/ change_mode
    \/ mode_if
    \/ mode_write
    \/ mode_write_fails
    \/ mode_arm
    \/ mode_confirmed
    \/ mode_spin
    \/ mode_restore
    \/ call_returned

Spec == Init /\ [][Next]_vars

-----------------------------------------------------------------------------
(* The planner on its own: every iteration order, every state *)

InitPlanner ==
    /\ items_order \in ItemOrders
    /\ sm_timeout = 0
    /\ device = "free"
    /\ pdos \in MainPdoConfigs
    /\ NodeInit
    /\ pl_from \in States402 /\ pl_next = None /\ pl_done = FALSE
    /\ cb_raw = NoWord /\ cb_old = None

\* self.__next_state_for_enabling(pl_from)
plan_for_enabling ==
    /\ ~pl_done
    /\ pl_next' = next_state_for_enabling(items_order, pl_from)
    /\ pl_done' = TRUE
    /\ UNCHANGED <<envVars, nodeVars, bindVars, timeVars, ctlVars, setterVars,
                   modeVars, histVars, pl_from, cb_raw, cb_old>>

NextPlanner == plan_for_enabling

SpecPlanner == InitPlanner /\ [][NextPlanner]_vars

\* The two orders Init tries give every result the planner can give under any
\* iteration order, for every state.
OrdersCovered ==
    pl_done => pl_next \in { next_state_for_enabling(WrittenOrder, pl_from),
                             next_state_for_enabling(ReverseOrder, pl_from) }

-----------------------------------------------------------------------------
(* The decoder on its own: every raw status word, from every observed state *)

InitDecode ==
    /\ items_order = WrittenOrder
    /\ sm_timeout = 0
    /\ device = "free"
    /\ pdos \in MainPdoConfigs
    /\ NodeInit
    /\ pl_from = None /\ pl_next = None /\ pl_done = FALSE
    /\ cb_raw = NoWord /\ cb_old = None

\* on_statusword_callback(mapobject) with mapobject[0].raw any word
statusword_received ==
    /\ is_statusword_configured
    /\ \E statusword \in 0..MaxWord :
        /\ cb_raw' = statusword
        /\ sw_last_value' = statusword
        /\ _state' \in Decoded(statusword, _state)
    /\ cb_old' = _state
    /\ UNCHANGED <<envVars, bindVars, timeVars, ctlVars, setterVars, modeVars,
                   histVars, pl_from, pl_next, pl_done>>

NextDecode ==
    \/ setup_state402_machine
    \/ call_returned
    \/ statusword_received

SpecDecode == InitDecode /\ [][NextDecode]_vars

-----------------------------------------------------------------------------
(* Setup on its own: every collection of at most MaxPdos PDO maps *)

PdoMaps == { PdoMap(e, s, c) : e \in BOOLEAN, s \in BOOLEAN, c \in BOOLEAN }

AllPdoConfigs == UNION { [1..n -> PdoMaps] : n \in 0..MaxPdos }

InitSetup ==
    /\ items_order = WrittenOrder
    /\ sm_timeout = 0
    /\ device = "free"
    /\ pdos \in AllPdoConfigs
    /\ NodeInit
    /\ pl_from = None /\ pl_next = None /\ pl_done = FALSE
    /\ cb_raw = NoWord /\ cb_old = None

NextSetup ==
    \/ setup_state402_machine
    \/ call_returned

SpecSetup == InitSetup /\ [][NextSetup]_vars

-----------------------------------------------------------------------------
(* The state setter on its own, called by the application, against a drive  *)
(* that answers freely, with an overall timeout of zero or of more than one *)
(* step timeout.  Here the statements of an iteration take time too: the    *)
(* clock can move before line 279 reads it.                                 *)

\* an overall timeout longer than one step timeout, in ticks
LongTimeout == StepTimeout + 1

\* the clock stops when the last step wait that can begin has timed out
SetterMaxTime == LongTimeout + StepTimeout + 1

InitSetter ==
    /\ items_order \in {WrittenOrder, ReverseOrder}
    /\ sm_timeout \in {0, LongTimeout}
    /\ device = "free"
    /\ pdos \in MainPdoConfigs
    /\ NodeInit
    /\ pl_from = None /\ pl_next = None /\ pl_done = FALSE
    /\ cb_raw = NoWord /\ cb_old = None

\* time.time() moves on: between two turns of the waiting loop, lines 270-273,
\* and while the statements before line 279 run, until the overall deadline
\* has passed
time_passes ==
    /\ now < SetterMaxTime
    /\ \/ pc = "wait" /\ polled
       \/ pc = "finally" /\ now <= gt
    /\ now' = now + 1
    /\ polled' = FALSE
    /\ UNCHANGED <<envVars, nodeVars, bindVars, ctlVars, setterVars, modeVars,
                   histVars, plVars>>

\* the statements of the setter, in the thread of the caller
setter_step ==
    \/ setter_while
    \/ setter_plan
    \/ setter_lookup
    \/ change_state_helper
    \/ change_state_helper_fails
    \/ setter_arm
    \/ setter_wait
    \/ setter_finally

NextSetter ==
    \/ setup_state402_machine
    \/ on_statusword_callback
    \/ time_passes
    \/ state_setter
    \/ setter_step
    \/ call_returned

SpecSetter == InitSetter /\ [][NextSetter]_vars

\* the thread of the caller runs on, and so does the clock
SpecSetterFair ==
    SpecSetter /\ WF_vars(setter_step) /\ WF_vars(time_passes)

-----------------------------------------------------------------------------
(* Properties *)

\* the control codes of the history, without the transport
Codes(h) == [i \in 1..Len(h) |-> h[i][2]]

IsPrefix(a, b) == Len(a) <= Len(b) /\ SubSeq(b, 1, Len(a)) = a

SdoErrorClasses == {"SdoCommunicationError", "SdoAbortedError"}

\* the transport has failed in this call
TransportFailed == exc.cls \in SdoErrorClasses \/ result.cls \in SdoErrorClasses

\* the overall deadline of the setter has not passed
InTime == now <= gt

\* C2 (as claimed): the planner's result for each of the eight states
ClaimedNext ==
    "NOT READY TO SWITCH ON" :> "SWITCH ON DISABLED" @@
    "FAULT"                  :> "SWITCH ON DISABLED" @@
    "SWITCH ON DISABLED"     :> "READY TO SWITCH ON" @@
    "READY TO SWITCH ON"     :> "SWITCHED ON" @@
    "SWITCHED ON"            :> "OPERATION ENABLED" @@
    "QUICK STOP ACTIVE"      :> "OPERATION ENABLED" @@
    "OPERATION ENABLED"      :> "OPERATION ENABLED" @@
    "FAULT REACTION ACTIVE"  :> "FAULT"

\* C1: requesting OPERATION ENABLED from NOT READY TO SWITCH ON against an
\* obedient drive, with the transport working and the overall deadline not
\* passed, dispatches 0x00, 0x06, 0x07,
\* 0x0F in that order and nothing else; a code is dispatched only when the
\* observed state is the state of the previous step, decoded from the last
\* status word; the call returns normally, in OPERATION ENABLED.
StairCodes == <<0, 6, 7, 15>>
StairStates == << "NOT READY TO SWITCH ON", "SWITCH ON DISABLED", "READY TO SWITCH ON",
                  "SWITCHED ON", "OPERATION ENABLED" >>

C1_Scope ==
    /\ op = "state" /\ new_state = "OPERATION ENABLED"
    /\ op_from = "NOT READY TO SWITCH ON"
    /\ device = "obedient"
    /\ ~TransportFailed /\ InTime

C1_Staircase ==
    C1_Scope =>
        /\ IsPrefix(Codes(sent), StairCodes)
        /\ _state \in { StairStates[Len(sent) + 1],
                        StairStates[IF sent = <<>> THEN 1 ELSE Len(sent)] }
        /\ pc = "send" =>
            /\ _state = StairStates[Len(sent) + 1]
            /\ code = StairCodes[Len(sent) + 1]
            /\ sent # <<>> => _state \in Matching(sw_last_value)
        /\ pc = "done" =>
            /\ result = Ok
            /\ Codes(sent) = StairCodes
            /\ _state = "OPERATION ENABLED"

C1_Witness ==
    C1_Scope /\ pc = "done" /\ result = Ok /\ Codes(sent) = StairCodes

\* C2: for each of the eight states the planner returns the state claimed,
\* under every iteration order of its table, and for every state but
\* OPERATION ENABLED the pair (state, result) is a key of the transition table.
C2_PlannerAsClaimed ==
    pl_done =>
        /\ pl_next = ClaimedNext[pl_from]
        /\ pl_from # "OPERATION ENABLED" => ~IsKeyError(pl_from, pl_next)

\* C3: requesting a state t other than OPERATION ENABLED while the observed
\* state is f and stays f, f # t: if (f, t) is no key of the transition table
\* nothing is dispatched and the call fails with TypeError; if it is a key,
\* for any t, the first code dispatched is the table's code for (f, t).
C3_Scope ==
    /\ op = "state" /\ op_from # new_state /\ heard = 0

C3_IllegalOrFirstCode ==
    C3_Scope =>
        IF IsKeyError(op_from, new_state)
        THEN new_state # "OPERATION ENABLED" =>
                /\ sent = <<>>
                /\ pc \notin {"send", "arm", "wait"}
                /\ pc = "done" => result = Raised("TypeError")
        ELSE sent # <<>> => sent[1][2] = TRANSITIONTABLE[<<op_from, new_state>>]

C3_Witness ==
    /\ C3_Scope /\ IsKeyError(op_from, new_state) /\ new_state # "OPERATION ENABLED"
    /\ pc = "done" /\ result = Raised("TypeError") /\ sent = <<>>

\* C4: requesting the state that is observed when the call is made and still
\* when line 261 tests it returns normally at once: nothing is dispatched, no
\* step deadline is waited on, no exception raised, whatever sm_timeout is.
C4_Scope ==
    /\ op = "state" /\ op_from = new_state /\ heard = 0

C4_NoOp ==
    C4_Scope =>
        /\ pc \in {"while", "done"}
        /\ sent = <<>>
        /\ now = 0
        /\ pc = "done" => result = Ok

C4_Witness ==
    C4_Scope /\ pc = "done" /\ result = Ok /\ sent = <<>> /\ sm_timeout = 0

\* C5: a drive that is sent a command and never answers (no status word
\* arrives during the call).
C5_Scope ==
    /\ op = "state" /\ device = "free" /\ heard = 0
    /\ sent # <<>> /\ pc = "done"

C6_FailureAbsorbed ==
    op = "state" /\ pc = "done" => result.cls \in {"ok", "TypeError", "RuntimeError"}

\* C7: a change_mode call that starts in OPERATION ENABLED, against an obedient
\* drive, and gets to the write of the mode has requested OPERATION ENABLED
\* again when it returns, and is in OPERATION ENABLED when it returns normally,
\* whether the write went through or failed.
C7_Restored ==
    (op = "change_mode" /\ op_from = "OPERATION ENABLED" /\ device = "obedient"
        /\ write_result # NoExc /\ pc = "done") =>
        /\ new_state = "OPERATION ENABLED"
        /\ (result = Ok /\ exc = NoExc) => _state = "OPERATION ENABLED"

\* C8: when the write of the mode fails, change_mode returns normally for a
\* communication failure and for the abort code 0x06010002, and raises the
\* device's abort itself for any other abort code.
C8_ByCause ==
    (op = "change_mode" /\ pc = "done" /\ write_result.cls \in SdoErrorClasses) =>
        result = IF write_result.cls = "SdoAbortedError" /\ write_result.code # ReadOnlyAbort
                 THEN write_result
                 ELSE Ok

\* C9: reset_from_fault in FAULT against an obedient drive, with the transport
\* working and the overall deadline not passed, dispatches 0x80, 0x06, 0x07, 0x0F in that order, never raises
\* TypeError and returns normally in OPERATION ENABLED.
ResetCodes == <<128, 6, 7, 15>>

C9_ResetStaircase ==
    (op = "reset_from_fault" /\ op_from = "FAULT" /\ device = "obedient"
        /\ ~TransportFailed /\ InTime) =>
        /\ IsPrefix(Codes(sent), ResetCodes)
        /\ exc.cls # "TypeError" /\ result.cls # "TypeError"
        /\ pc = "done" =>
            /\ result = Ok
            /\ Codes(sent) = ResetCodes
            /\ _state = "OPERATION ENABLED"

\* C10: reset_from_fault in a state other than FAULT returns at once: nothing
\* is dispatched, no object is written, and the observed state and the last
\* status word are as they were.
C10_Scope ==
    op = "reset_from_fault" /\ op_from # "FAULT"

C10_NoEffect ==
    /\ [](C10_Scope => pc = "done" /\ result = Ok /\ sent = <<>> /\ _state = op_from)
    /\ [][(pc = "idle" /\ op' = "reset_from_fault" /\ _state # "FAULT") =>
            UNCHANGED <<_state, sw_last_value, mode_value, bindVars>>]_vars

C10_Witness ==
    C10_Scope /\ pc = "done" /\ sent = <<>> /\ _state = "OPERATION ENABLED"

\* C11 (as claimed): after a callback the observed state is the one the model's
\* decoder gives for the raw value from every state the node could have been
\* in before, under every iteration order of STATES402.
C11_FromWordAlone ==
    cb_raw # NoWord =>
        \A old \in States402 : Decoded(cb_raw, old) = {_state}

\* C11 (amended): that holds for every raw value that matches the pair of a
\* state; after a raw value that matches none the observed state is the state
\* observed before the callback.
C11_FromWordIfMatched ==
    cb_raw # NoWord =>
        IF Matching(cb_raw) # {}
        THEN \A old \in States402 : Decoded(cb_raw, old) = {_state}
        ELSE _state = cb_old

C11_Witness ==
    /\ cb_raw = 39 /\ cb_old = "FAULT" /\ _state = "OPERATION ENABLED"

\* the enabled maps that have the object, in scan order
EnabledWith(object) ==
    { i \in 1..Len(pdos) : pdos[i].enabled /\ pdos[i][object] }

First(indexes) == CHOOSE i \in indexes : \A j \in indexes : i <= j

\* C12: setup raises ValueError exactly when no enabled map has a Statusword;
\* the node is OPERATIONAL only if an enabled map has one; a setup that returns
\* normally leaves the node OPERATIONAL with one callback subscribed, on the
\* first enabled map that has a Statusword, with or without a Controlword map.
C12_SetupOutcome ==
    /\ nmt_state = "OPERATIONAL" => EnabledWith("Statusword") # {}
    /\ Len(callbacks) <= 1
    /\ (op = "setup" /\ pc = "done") =>
        IF EnabledWith("Statusword") = {}
        THEN /\ result = Raised("ValueError")
             /\ callbacks = <<>>
        ELSE /\ result = Ok
             /\ nmt_state = "OPERATIONAL"
             /\ callbacks = << First(EnabledWith("Statusword")) >>

C12_Witness ==
    /\ op = "setup" /\ pc = "done" /\ result = Ok
    /\ EnabledWith("Controlword") = {} /\ callbacks = <<2>>
    /\ nmt_state = "OPERATIONAL"

\* C13: when the wait for an edge ends by the step deadline, no exception is in
\* flight at the finally clause; if the overall deadline has not passed there,
\* the setter goes on to line 261 with the same target, and the next edge is
\* planned from the state observed then; a call whose last wait timed out
\* fails with RuntimeError only when the overall deadline has passed.
C13_StepTimeoutRetries ==
    /\ []((pc = "finally" /\ edge_end = "timeout") => exc = NoExc)
    /\ []((op = "state" /\ pc = "done" /\ edge_end = "timeout"
            /\ result = Raised("RuntimeError")) => now > gt)
    /\ [][(pc = "finally" /\ edge_end = "timeout" /\ now <= gt /\ pc' # pc) =>
            (pc' = "while" /\ new_state' = new_state)]_vars
    /\ [][(pc = "plan" /\ edge_end = "timeout" /\ pc' # pc) =>
            /\ plan_from' = _state
            /\ next' = IF new_state = "OPERATION ENABLED"
                       THEN next_state_for_enabling(items_order, _state)
                       ELSE new_state]_vars

C13_Witness ==
    /\ op = "state" /\ pc = "send" /\ edge_end = "timeout" /\ now <= gt
    /\ Len(sent) = 1 /\ plan_from # op_from

\* C14: every call of the state setter ends, whatever the drive sends, when the
\* thread of the caller and the clock run on, and it ends normally, with
\* TypeError or with RuntimeError.
C14_EndsInOneOfThree ==
    (op = "state" /\ pc # "done") ~>
        (pc = "done" /\ result.cls \in {"ok", "TypeError", "RuntimeError"})

\* C14, the part that holds: every call of the state setter ends.
C14_Terminates ==
    (op = "state" /\ pc # "done") ~> (pc = "done")

\* C15: a call of the state setter returns normally only from line 261, with
\* the observed state equal to the target there, and is in that state when it
\* has returned; when the finally clause finds the overall deadline passed
\* the call ends with RuntimeError, also when the edge was just confirmed.
C15_SuccessOnlyAtTarget ==
    /\ []((op = "state" /\ pc = "done" /\ result = Ok) => _state = new_state)
    /\ [][(op = "state" /\ pc # "done" /\ pc' = "done" /\ result' = Ok) =>
            (pc = "while" /\ _state = new_state)]_vars
    /\ [][(op = "state" /\ pc = "finally" /\ now > gt /\ pc' # pc) =>
            (pc' = "done" /\ result' = Raised("RuntimeError"))]_vars

C15_Witness ==
    /\ op = "state" /\ pc = "done" /\ result = Raised("RuntimeError")
    /\ edge_end = "confirmed" /\ _state = new_state /\ now > gt

\* C16: when the lookup of line 267 has found no edge, and TypeError is in
\* flight at the finally clause, the call of the setter ends with TypeError.
C16_IllegalSurfaces ==
    [][(op = "state" /\ pc = "finally" /\ exc = Raised("TypeError") /\ pc' # pc) =>
        (pc' = "done" /\ result' = Raised("TypeError"))]_vars

\* C17: within a call of the state setter, the wait of lines 270-273 is for
\* the edge whose code was dispatched last; the wait is left only with the
\* observed state equal to the edge's next state or with the step deadline
\* passed; and a code is dispatched after another only when the wait for the
\* other has ended in one of these two ways.
C17_DispatchThenWait ==
    /\ []((op = "state" /\ pc \in {"arm", "wait"}) =>
            /\ sent # <<>>
            /\ sent[Len(sent)][2] = code
            /\ asked = next
            /\ edge_end = "none")
    /\ [][(op = "state" /\ pc = "wait" /\ pc' # pc) => (_state = next \/ now > it)]_vars
    /\ [][(op = "state" /\ sent # <<>> /\ Len(sent') = Len(sent) + 1) =>
            (pc = "send" /\ edge_end \in {"confirmed", "timeout"})]_vars

C17_Witness ==
    /\ op = "state" /\ pc = "wait" /\ Len(sent) = 2 /\ sent[1] # sent[2]
    /\ asked = next /\ _state # next /\ now > it

\* C18: before setup no PDO is bound; from the first setup on the bound PDO is
\* the first enabled map with a Controlword, or none if there is no such map,
\* and neither it nor is_controlword_configured changes again, whatever is
\* called; every code of a call is dispatched through the bound PDO if there
\* is one and through SDO 0x6040 otherwise.
C18_OneFixedTransport ==
    /\ [](cw_pdo = IF nmt_state = "INITIALISING" \/ EnabledWith("Controlword") = {}
                   THEN NoPdo
                   ELSE First(EnabledWith("Controlword")))
    /\ [](is_controlword_configured <=> cw_pdo # NoPdo)
    /\ [](\A i \in 1..Len(sent) :
            sent[i][1] = IF cw_pdo # NoPdo THEN "pdo" ELSE "sdo")
    /\ [][nmt_state # "INITIALISING" =>
            UNCHANGED <<cw_pdo, is_controlword_configured>>]_vars

C18_Witness ==
    /\ op = "change_mode" /\ pc = "done" /\ Len(sent) = 2
    /\ sent[1][1] = "pdo" /\ sent[2][1] = "pdo"
    /\ Cardinality(EnabledWith("Controlword")) = 2 /\ cw_pdo = 3

\* C19: after a callback the last raw status word is the word received; the
\* word matches the pair of one state at most; the observed state is the state
\* it matches, or the state observed before the callback if it matches none.
C19_CallbackRecords ==
    cb_raw # NoWord =>
        /\ sw_last_value = cb_raw
        /\ Cardinality(Matching(cb_raw)) <= 1
        /\ \A key \in Matching(cb_raw) : _state = key
        /\ Matching(cb_raw) = {} => _state = cb_old

C19_Witness ==
    /\ cb_raw = 1 /\ sw_last_value = 1 /\ Matching(cb_raw) = {}
    /\ cb_old = "SWITCHED ON" /\ _state = "SWITCHED ON"

\* C20: in a call of the state setter for OPERATION ENABLED, the state line 267
\* looks the edge up from is the state line 264 planned it from, so that a
\* code is dispatched only for an edge planned from the state it leaves, never
\* for one that leaves OPERATION ENABLED, and TypeError is raised only when the
\* state planned from has no edge to the planned state.
C20_OneStatePerIteration ==
    (op = "state" /\ new_state = "OPERATION ENABLED") =>
        /\ pc \in {"send", "arm", "wait"} =>
            /\ edge_from = plan_from
            /\ edge_from # "OPERATION ENABLED"
        /\ (pc = "finally" /\ exc = Raised("TypeError")) => IsKeyError(plan_from, next)

====
